---- MODULE Spec2Model ----
(***************************************************************************)
(* Model of sentry.db.models.fields.node: the lazy document proxy          *)
(* (NodeData) and the pointer field codec (NodeField) over the external    *)
(* content store (sentry.nodestore).                                       *)
(*                                                                         *)
(* Python values are modelled as follows.                                  *)
(*   - None, as a pointer, a ref or a ref_version, is the number 0; real   *)
(*     pointers, refs and versions are positive numbers.                   *)
(*   - A dict is a function from a finite set of string keys to numbers.   *)
(*   - An optional dict (the _node_data slot, a store entry) is a set:     *)
(*     {} for None / absent, {d} for the dict d.                           *)
(*   - field.wrapper keeps its default, None (node.py line 145).           *)
(***************************************************************************)
EXTENDS Integers, Sequences, FiniteSets, TLC

\* ------------------------------------------------------------------ bounds
MaxId == 2
MaxVal == 1
MaxRef == 2
MaxVersion == 1
MaxInstance == 1

Ids == 1..MaxId
Vals == 1..MaxVal
Refs == 1..MaxRef
Versions == 1..MaxVersion
UserKeys == {"a"}
Proxies == {"p1"}
Instances == 0..MaxInstance

\* ------------------------------------------------------------------ dicts
EmptyDict == [k \in {} |-> 0]

Without(d, k) == [x \in (DOMAIN d) \ {k} |-> d[x]]

Put(d, k, v) == [x \in (DOMAIN d) \cup {k} |-> IF x = k THEN v ELSE d[x]]

\* dict.pop(k, default): the value only; the dict afterwards is Without(d, k)
Pop(d, k, default) == IF k \in DOMAIN d THEN d[k] ELSE default

The(s) == CHOOSE d \in s : TRUE

DictsOver(keys, vals) == UNION {[D -> vals] : D \in SUBSET keys}

\* document bodies without reserved keys
UserDocs == DictsOver(UserKeys, Vals)

\* the reserved part of a document: any combination of _ref and _ref_version
RefParts ==
  {EmptyDict}
    \cup {Put(EmptyDict, "_ref", r) : r \in Refs}
    \cup {Put(EmptyDict, "_ref_version", v) : v \in Versions}
    \cup {Put(Put(EmptyDict, "_ref", r), "_ref_version", v) : r \in Refs, v \in Versions}

Merge(d, e) == [x \in (DOMAIN d) \cup (DOMAIN e) |-> IF x \in DOMAIN e THEN e[x] ELSE d[x]]

\* every document body the model feeds to bind_data
Docs == {Merge(u, r) : u \in UserDocs, r \in RefParts}

\* ------------------------------------------------------------------ state
VARIABLES
  DEBUG,      \* settings.DEBUG: strict mode
  field,      \* the NodeField's options: null, ref_func, ref_version
  nodestore,  \* the content store: docs by pointer, and the next pointer create hands out
  node,       \* the NodeData held by each record attribute; {} before one is constructed
  last        \* the last operation: its name (__iter__, __len__ and copy, which only
              \* read self.data, are all "reader"), its proxy, the exception it raised,
              \* the key and the number it was given or returned, the persisted value
              \* it was given (to_python) or returned (get_prep_value), its store calls,
              \* the number of warnings it issued (warnings.warn, line 109)

vars == <<DEBUG, field, nodestore, node, last>>

\* ------------------------------------------------------------------ sentry.nodestore
nodestore_get(st, id) == st.docs[id]

nodestore_create(st, data) ==
  [id |-> st.next,
   store |-> [docs |-> [i \in DOMAIN st.docs |-> IF i = st.next THEN {data} ELSE st.docs[i]],
              next |-> st.next + 1]]

nodestore_set(st, id, data) == [st EXCEPT !.docs[id] = {data}]

nodestore_delete(st, id) == [st EXCEPT !.docs[id] = {}]

\* ------------------------------------------------------------------ sentry.utils
\* pickle.dumps / pickle.loads and compress / decompress: a string is what the
\* transforms built, so that undoing a transform that was never applied fails.
pickle_dumps(o) == [fmt |-> "pickle", obj |-> o]

compress(b) == [fmt |-> "zlib", raw |-> b]

decompress(s) ==
  IF s.fmt = "zlib" THEN [exc |-> "None", raw |-> s.raw]
  ELSE [exc |-> "Exception", raw |-> s]

pickle_loads(b) ==
  IF b.fmt = "pickle" THEN [exc |-> "None", obj |-> b.obj]
  ELSE [exc |-> "Exception", obj |-> [kind |-> "int", d |-> EmptyDict]]

PyNone == [type |-> "NoneType"]

PyStr(s) == [type |-> "str", s |-> s]

PyDict(d) == [type |-> "dict", d |-> d]

DictObj(d) == [kind |-> "dict", d |-> d]

IntObj == [kind |-> "int", d |-> EmptyDict]

\* ------------------------------------------------------------------ NodeData
NodeData(id, data) == [id |-> id, ref |-> 0, ref_version |-> 0, node_data |-> data]

ref_func(instance) == instance

get_ref(instance) == IF ~field.ref_func THEN 0 ELSE ref_func(instance)

\* bind_data without the epoch test of line 121: a stale epoch no longer
\* switches the reference check off
bind_data_no_epoch(n, data, ref) ==
  LET r == Pop(data, "_ref", ref)
      v == Pop(data, "_ref_version", 0)
      rest == Without(Without(data, "_ref"), "_ref_version")
      n1 == [n EXCEPT !.ref = r, !.ref_version = v]
  IN IF ref # 0 /\ r # ref
     THEN [exc |-> "NodeIntegrityFailure", node |-> n1]
     ELSE [exc |-> "None", node |-> [n1 EXCEPT !.node_data = {rest}]]

\* bind_data without "ref is not None" in the test of line 121: a body bound
\* with no expected reference is checked against None
bind_data_checks_none(n, data, ref) ==
  LET r == Pop(data, "_ref", ref)
      v == Pop(data, "_ref_version", 0)
      rest == Without(Without(data, "_ref"), "_ref_version")
      n1 == [n EXCEPT !.ref = r, !.ref_version = v]
  IN IF v = field.ref_version /\ r # ref
     THEN [exc |-> "NodeIntegrityFailure", node |-> n1]
     ELSE [exc |-> "None", node |-> [n1 EXCEPT !.node_data = {rest}]]

bind_data(n, data, ref) ==
  LET r == Pop(data, "_ref", ref)
      v == Pop(data, "_ref_version", 0)
      rest == Without(Without(data, "_ref"), "_ref_version")
      n1 == [n EXCEPT !.ref = r, !.ref_version = v]
  IN IF v = field.ref_version /\ ref # 0 /\ r # ref
     THEN [exc |-> "NodeIntegrityFailure", node |-> n1]
     ELSE [exc |-> "None", node |-> [n1 EXCEPT !.node_data = {rest}]]

\* the data property testing self.id before self._node_data: a proxy with a
\* pointer fetches on every access
data_refetch(n, st) ==
  IF n.id # 0
  THEN IF DEBUG
       THEN [exc |-> "NodeUnpopulated", rv |-> EmptyDict, bound |-> FALSE, node |-> n,
             calls |-> <<>>, warns |-> 0]
       ELSE LET got == nodestore_get(st, n.id)
                doc == IF got = {} \/ The(got) = EmptyDict THEN EmptyDict ELSE The(got)
                b == bind_data(n, doc, 0)
            IN [exc |-> b.exc,
                rv |-> IF b.node.node_data = {} THEN EmptyDict ELSE The(b.node.node_data),
                bound |-> b.node.node_data # {},
                node |-> b.node,
                calls |-> << <<"get", n.id>> >>, warns |-> 1]
  ELSE IF n.node_data # {}
  THEN [exc |-> "None", rv |-> The(n.node_data), bound |-> TRUE, node |-> n,
        calls |-> <<>>, warns |-> 0]
  ELSE [exc |-> "None", rv |-> EmptyDict, bound |-> FALSE, node |-> n, calls |-> <<>>, warns |-> 0]

\* the data property without the "or {}" of line 110: an absent document reaches
\* bind_data as None, whose pop does not exist
data_no_default(n, st) ==
  IF n.node_data # {}
  THEN [exc |-> "None", rv |-> The(n.node_data), bound |-> TRUE, node |-> n,
        calls |-> <<>>, warns |-> 0]
  ELSE IF n.id # 0
  THEN IF DEBUG
       THEN [exc |-> "NodeUnpopulated", rv |-> EmptyDict, bound |-> FALSE, node |-> n,
             calls |-> <<>>, warns |-> 0]
       ELSE LET got == nodestore_get(st, n.id)
                b == bind_data(n, IF got = {} THEN EmptyDict ELSE The(got), 0)
            IN IF got = {}
               THEN [exc |-> "AttributeError", rv |-> EmptyDict, bound |-> FALSE, node |-> n,
                     calls |-> << <<"get", n.id>> >>, warns |-> 1]
               ELSE [exc |-> b.exc,
                     rv |-> IF b.node.node_data = {} THEN EmptyDict ELSE The(b.node.node_data),
                     bound |-> b.node.node_data # {},
                     node |-> b.node,
                     calls |-> << <<"get", n.id>> >>, warns |-> 1]
  ELSE [exc |-> "None", rv |-> EmptyDict, bound |-> FALSE, node |-> n, calls |-> <<>>, warns |-> 0]

\* the data property without the test of settings.DEBUG (lines 106-107): strict
\* mode warns and fetches like lenient mode
data_never_strict(n, st) ==
  IF n.node_data # {}
  THEN [exc |-> "None", rv |-> The(n.node_data), bound |-> TRUE, node |-> n,
        calls |-> <<>>, warns |-> 0]
  ELSE IF n.id # 0
  THEN LET got == nodestore_get(st, n.id)
           doc == IF got = {} \/ The(got) = EmptyDict THEN EmptyDict ELSE The(got)
           b == bind_data(n, doc, 0)
       IN [exc |-> b.exc,
           rv |-> IF b.node.node_data = {} THEN EmptyDict ELSE The(b.node.node_data),
           bound |-> b.node.node_data # {},
           node |-> b.node,
           calls |-> << <<"get", n.id>> >>, warns |-> 1]
  ELSE [exc |-> "None", rv |-> EmptyDict, bound |-> FALSE, node |-> n, calls |-> <<>>, warns |-> 0]

\* the data property. bound: whether rv is the dict held in _node_data (a write
\* to rv is then a write to the proxy's body) or a fresh dict nobody holds.
data(n, st) ==
  IF n.node_data # {}
  THEN [exc |-> "None", rv |-> The(n.node_data), bound |-> TRUE, node |-> n,
        calls |-> <<>>, warns |-> 0]
  ELSE IF n.id # 0
  THEN IF DEBUG
       THEN [exc |-> "NodeUnpopulated", rv |-> EmptyDict, bound |-> FALSE, node |-> n,
             calls |-> <<>>, warns |-> 0]
       ELSE LET got == nodestore_get(st, n.id)
                doc == IF got = {} \/ The(got) = EmptyDict THEN EmptyDict ELSE The(got)
                b == bind_data(n, doc, 0)
            IN [exc |-> b.exc,
                rv |-> IF b.node.node_data = {} THEN EmptyDict ELSE The(b.node.node_data),
                bound |-> b.node.node_data # {},
                node |-> b.node,
                calls |-> << <<"get", n.id>> >>, warns |-> 1]
  ELSE [exc |-> "None", rv |-> EmptyDict, bound |-> FALSE, node |-> n, calls |-> <<>>, warns |-> 0]

\* a write to the dict the data property returned
Written(r, newrv) == IF r.bound THEN [r.node EXCEPT !.node_data = {newrv}] ELSE r.node

getitem(n, st, key) ==
  LET r == data(n, st)
  IN IF r.exc # "None" THEN [exc |-> r.exc, val |-> 0, node |-> r.node,
                             calls |-> r.calls, warns |-> r.warns]
     ELSE IF key \notin DOMAIN r.rv
     THEN [exc |-> "KeyError", val |-> 0, node |-> r.node, calls |-> r.calls, warns |-> r.warns]
     ELSE [exc |-> "None", val |-> r.rv[key], node |-> r.node, calls |-> r.calls, warns |-> r.warns]

setitem(n, st, key, value) ==
  LET r == data(n, st)
  IN IF r.exc # "None" THEN [exc |-> r.exc, val |-> 0, node |-> r.node,
                             calls |-> r.calls, warns |-> r.warns]
     ELSE [exc |-> "None", val |-> 0, node |-> Written(r, Put(r.rv, key, value)),
           calls |-> r.calls, warns |-> r.warns]

delitem(n, st, key) ==
  LET r == data(n, st)
  IN IF r.exc # "None" THEN [exc |-> r.exc, val |-> 0, node |-> r.node,
                             calls |-> r.calls, warns |-> r.warns]
     ELSE IF key \notin DOMAIN r.rv
     THEN [exc |-> "KeyError", val |-> 0, node |-> r.node, calls |-> r.calls, warns |-> r.warns]
     ELSE [exc |-> "None", val |-> 0, node |-> Written(r, Without(r.rv, key)),
           calls |-> r.calls, warns |-> r.warns]

\* __iter__ and copy return the keys and a snapshot of the dict; the model keeps
\* the size of what was returned
iter(n, st) ==
  LET r == data(n, st)
  IN [exc |-> r.exc, val |-> Cardinality(DOMAIN r.rv), node |-> r.node,
      calls |-> r.calls, warns |-> r.warns]

len(n, st) ==
  LET r == data(n, st)
  IN [exc |-> r.exc, val |-> Cardinality(DOMAIN r.rv), node |-> r.node,
      calls |-> r.calls, warns |-> r.warns]

copy(n, st) ==
  LET r == data(n, st)
  IN [exc |-> r.exc, val |-> Cardinality(DOMAIN r.rv), node |-> r.node,
      calls |-> r.calls, warns |-> r.warns]

bind_ref(n, st, instance) ==
  LET ref == get_ref(instance)
      a == setitem(n, st, "_ref", ref)
      b == setitem(a.node, st, "_ref_version", field.ref_version)
  IN IF ref = 0 THEN [exc |-> "None", val |-> 0, node |-> n, calls |-> <<>>, warns |-> 0]
     ELSE IF a.exc # "None" THEN a
     ELSE [exc |-> b.exc, val |-> 0, node |-> b.node, calls |-> a.calls \o b.calls,
           warns |-> a.warns + b.warns]

\* ------------------------------------------------------------------ NodeField
\* on_delete without the early return of lines 154-155
on_delete_unguarded(n, st) ==
  [store |-> nodestore_delete(st, n.id), calls |-> << <<"delete", n.id>> >>]

on_delete(n, st) ==
  IF n.id = 0 THEN [store |-> st, calls |-> <<>>]
  ELSE [store |-> nodestore_delete(st, n.id), calls |-> << <<"delete", n.id>> >>]

\* the first statement of to_python: value after the string / falsy cases
Loaded(value) ==
  IF value.type = "str" /\ value.s.fmt # "empty"
  THEN LET z == decompress(value.s)
           u == IF z.exc = "None" THEN pickle_loads(z.raw) ELSE [exc |-> z.exc, obj |-> IntObj]
       IN IF u.exc = "None" THEN u.obj ELSE DictObj(EmptyDict)
  ELSE IF value.type = "NoneType" \/ value.type = "str" \/ value.d = EmptyDict
  THEN DictObj(EmptyDict)
  ELSE DictObj(value.d)

\* to_python taking every decoded mapping for an inline body, node_id included
to_python_inline(value) ==
  LET o == Loaded(value)
  IN IF o.kind # "dict"
     THEN [exc |-> "TypeError", node |-> NodeData(0, {})]
     ELSE [exc |-> "None", node |-> NodeData(0, {o.d})]

\* to_python fetching the document as it decodes a pointer record
to_python_eager(value) ==
  LET o == Loaded(value)
      got == nodestore_get(nodestore, o.d["node_id"])
  IN IF o.kind # "dict"
     THEN [exc |-> "TypeError", node |-> NodeData(0, {})]
     ELSE IF "node_id" \in DOMAIN o.d
     THEN [exc |-> "None",
           node |-> bind_data(NodeData(o.d["node_id"], {}),
                              IF got = {} THEN EmptyDict ELSE The(got), 0).node]
     ELSE [exc |-> "None", node |-> NodeData(0, {o.d})]

to_python(value) ==
  LET o == Loaded(value)
  IN IF o.kind # "dict"
     THEN [exc |-> "TypeError", node |-> NodeData(0, {})]
     ELSE IF "node_id" \in DOMAIN o.d
     THEN [exc |-> "None", node |-> NodeData(o.d["node_id"], {})]
     ELSE [exc |-> "None", node |-> NodeData(0, {o.d})]

\* get_prep_value not recording the pointer create returns (line 195 without
\* the assignment to value.id)
get_prep_value_forgets_id(n, st) ==
  LET l == len(n, st)
      r == data(l.node, st)
      c == nodestore_create(st, r.rv)
  IN IF l.exc # "None"
     THEN [exc |-> l.exc, ret |-> PyNone, node |-> l.node, store |-> st, calls |-> l.calls,
           warns |-> l.warns]
     ELSE IF l.val = 0 /\ field.null
     THEN [exc |-> "None", ret |-> PyNone, node |-> l.node, store |-> st, calls |-> l.calls,
           warns |-> l.warns]
     ELSE IF r.exc # "None"
     THEN [exc |-> r.exc, ret |-> PyNone, node |-> r.node, store |-> st,
           calls |-> l.calls \o r.calls, warns |-> l.warns + r.warns]
     ELSE IF r.node.id = 0
     THEN [exc |-> "None",
           ret |-> PyStr(compress(pickle_dumps(DictObj(Put(EmptyDict, "node_id", c.id))))),
           node |-> r.node,
           store |-> c.store,
           calls |-> l.calls \o r.calls \o << <<"create", c.id>> >>,
           warns |-> l.warns + r.warns]
     ELSE [exc |-> "None",
           ret |-> PyStr(compress(pickle_dumps(DictObj(Put(EmptyDict, "node_id", r.node.id))))),
           node |-> r.node,
           store |-> nodestore_set(st, r.node.id, r.rv),
           calls |-> l.calls \o r.calls \o << <<"set", r.node.id>> >>,
           warns |-> l.warns + r.warns]

\* get_prep_value handing the store the body as it was fetched, not as it is
\* now: set is called, with the document the store already holds
get_prep_value_stale(n, st) ==
  LET l == len(n, st)
      r == data(l.node, st)
      c == nodestore_create(st, r.rv)
      held == nodestore_get(st, r.node.id)
  IN IF l.exc # "None"
     THEN [exc |-> l.exc, ret |-> PyNone, node |-> l.node, store |-> st, calls |-> l.calls,
           warns |-> l.warns]
     ELSE IF l.val = 0 /\ field.null
     THEN [exc |-> "None", ret |-> PyNone, node |-> l.node, store |-> st, calls |-> l.calls,
           warns |-> l.warns]
     ELSE IF r.exc # "None"
     THEN [exc |-> r.exc, ret |-> PyNone, node |-> r.node, store |-> st,
           calls |-> l.calls \o r.calls, warns |-> l.warns + r.warns]
     ELSE IF r.node.id = 0
     THEN [exc |-> "None",
           ret |-> PyStr(compress(pickle_dumps(DictObj(Put(EmptyDict, "node_id", c.id))))),
           node |-> [r.node EXCEPT !.id = c.id],
           store |-> c.store,
           calls |-> l.calls \o r.calls \o << <<"create", c.id>> >>,
           warns |-> l.warns + r.warns]
     ELSE [exc |-> "None",
           ret |-> PyStr(compress(pickle_dumps(DictObj(Put(EmptyDict, "node_id", r.node.id))))),
           node |-> r.node,
           store |-> IF held = {} THEN st ELSE nodestore_set(st, r.node.id, The(held)),
           calls |-> l.calls \o r.calls \o << <<"set", r.node.id>> >>,
           warns |-> l.warns + r.warns]

\* get_prep_value pickling the document along with the pointer (line 199 dumping
\* the body with node_id added)
get_prep_value_inline(n, st) ==
  LET l == len(n, st)
      r == data(l.node, st)
      c == nodestore_create(st, r.rv)
  IN IF l.exc # "None"
     THEN [exc |-> l.exc, ret |-> PyNone, node |-> l.node, store |-> st, calls |-> l.calls,
           warns |-> l.warns]
     ELSE IF l.val = 0 /\ field.null
     THEN [exc |-> "None", ret |-> PyNone, node |-> l.node, store |-> st, calls |-> l.calls,
           warns |-> l.warns]
     ELSE IF r.exc # "None"
     THEN [exc |-> r.exc, ret |-> PyNone, node |-> r.node, store |-> st,
           calls |-> l.calls \o r.calls, warns |-> l.warns + r.warns]
     ELSE IF r.node.id = 0
     THEN [exc |-> "None",
           ret |-> PyStr(compress(pickle_dumps(DictObj(Put(r.rv, "node_id", c.id))))),
           node |-> [r.node EXCEPT !.id = c.id],
           store |-> c.store,
           calls |-> l.calls \o r.calls \o << <<"create", c.id>> >>,
           warns |-> l.warns + r.warns]
     ELSE [exc |-> "None",
           ret |-> PyStr(compress(pickle_dumps(DictObj(Put(r.rv, "node_id", r.node.id))))),
           node |-> r.node,
           store |-> nodestore_set(st, r.node.id, r.rv),
           calls |-> l.calls \o r.calls \o << <<"set", r.node.id>> >>,
           warns |-> l.warns + r.warns]

\* get_prep_value without the test of value.id (line 194): every save creates
get_prep_value_always_creates(n, st) ==
  LET l == len(n, st)
      r == data(l.node, st)
      c == nodestore_create(st, r.rv)
  IN IF l.exc # "None"
     THEN [exc |-> l.exc, ret |-> PyNone, node |-> l.node, store |-> st, calls |-> l.calls,
           warns |-> l.warns]
     ELSE IF l.val = 0 /\ field.null
     THEN [exc |-> "None", ret |-> PyNone, node |-> l.node, store |-> st, calls |-> l.calls,
           warns |-> l.warns]
     ELSE IF r.exc # "None"
     THEN [exc |-> r.exc, ret |-> PyNone, node |-> r.node, store |-> st,
           calls |-> l.calls \o r.calls, warns |-> l.warns + r.warns]
     ELSE [exc |-> "None",
           ret |-> PyStr(compress(pickle_dumps(DictObj(Put(EmptyDict, "node_id", c.id))))),
           node |-> [r.node EXCEPT !.id = c.id],
           store |-> c.store,
           calls |-> l.calls \o r.calls \o << <<"create", c.id>> >>,
           warns |-> l.warns + r.warns]

get_prep_value(n, st) ==
  LET l == len(n, st)
      r == data(l.node, st)
      c == nodestore_create(st, r.rv)
  IN IF l.exc # "None"
     THEN [exc |-> l.exc, ret |-> PyNone, node |-> l.node, store |-> st, calls |-> l.calls,
           warns |-> l.warns]
     ELSE IF l.val = 0 /\ field.null
     THEN [exc |-> "None", ret |-> PyNone, node |-> l.node, store |-> st, calls |-> l.calls,
           warns |-> l.warns]
     ELSE IF r.exc # "None"
     THEN [exc |-> r.exc, ret |-> PyNone, node |-> r.node, store |-> st,
           calls |-> l.calls \o r.calls, warns |-> l.warns + r.warns]
     ELSE IF r.node.id = 0
     THEN [exc |-> "None",
           ret |-> PyStr(compress(pickle_dumps(DictObj(Put(EmptyDict, "node_id", c.id))))),
           node |-> [r.node EXCEPT !.id = c.id],
           store |-> c.store,
           calls |-> l.calls \o r.calls \o << <<"create", c.id>> >>,
           warns |-> l.warns + r.warns]
     ELSE [exc |-> "None",
           ret |-> PyStr(compress(pickle_dumps(DictObj(Put(EmptyDict, "node_id", r.node.id))))),
           node |-> r.node,
           store |-> nodestore_set(st, r.node.id, r.rv),
           calls |-> l.calls \o r.calls \o << <<"set", r.node.id>> >>,
           warns |-> l.warns + r.warns]

\* ------------------------------------------------------------------ inputs
Allocated == 1..(nodestore.next - 1)

PointerRecord(id) == Put(EmptyDict, "node_id", id)

Garbage == [fmt |-> "garbage"]

\* the values to_python is called with: null, the empty string, strings that do
\* not decompress or do not unpickle, a pickled non-mapping, and pointer records
\* and inline bodies, both as stored strings and as decoded mappings
PersistedValues ==
  {PyNone, PyStr([fmt |-> "empty"]), PyStr(Garbage), PyStr(compress(Garbage)),
   PyStr(compress(pickle_dumps(IntObj)))}
    \cup {PyStr(compress(pickle_dumps(DictObj(PointerRecord(i))))) : i \in Allocated}
    \cup {PyDict(PointerRecord(i)) : i \in Allocated}
    \cup {PyStr(compress(pickle_dumps(DictObj(d)))) : d \in UserDocs}
    \cup {PyDict(d) : d \in UserDocs}

\* how many calls of one kind a handler made
Calls(calls, name) == Cardinality({i \in 1..Len(calls) : calls[i][1] = name})

\* ------------------------------------------------------------------ actions
Init ==
  /\ DEBUG \in BOOLEAN
  /\ field \in [null : BOOLEAN, ref_func : BOOLEAN, ref_version : {0} \cup Versions]
  /\ nodestore = [docs |-> [i \in Ids |-> {}], next |-> 1]
  /\ node = [p \in Proxies |-> NodeData(0, {})]
  /\ last = [op |-> "__init__", p |-> CHOOSE p \in Proxies : TRUE, exc |-> "None",
             key |-> "", val |-> 0, value |-> PyNone, calls |-> <<>>, warns |-> 0]

\* what every operation leaves behind: the proxy, the store, the record of the call.
\* create is disabled once the store has handed out MaxId pointers.
Done(op, p, r, st, key, val, value) ==
  /\ st.next <= MaxId + 1
  /\ node' = [node EXCEPT ![p] = r.node]
  /\ nodestore' = st
  /\ last' = [op |-> op, p |-> p, exc |-> r.exc, key |-> key, val |-> val,
              value |-> value, calls |-> r.calls, warns |-> r.warns]
  /\ UNCHANGED <<DEBUG, field>>

NoCalls(exc, n) == [exc |-> exc, node |-> n, calls |-> <<>>, warns |-> 0]

NodeDataInit(p) ==
  \E id \in {0} \cup Allocated, d \in {{}} \cup {{u} : u \in UserDocs} :
    Done("__init__", p, NoCalls("None", NodeData(id, d)), nodestore, "", 0, PyNone)

GetItem(p) ==
  \E k \in UserKeys :
    LET r == getitem(node[p], nodestore, k)
    IN Done("__getitem__", p, r, nodestore, k, r.val, PyNone)

SetItem(p) ==
  \E k \in UserKeys, v \in Vals :
    LET r == setitem(node[p], nodestore, k, v)
    IN Done("__setitem__", p, r, nodestore, k, v, PyNone)

DelItem(p) ==
  \E k \in UserKeys :
    LET r == delitem(node[p], nodestore, k)
    IN Done("__delitem__", p, r, nodestore, k, 0, PyNone)

Iter(p) ==
  LET r == iter(node[p], nodestore)
  IN Done("reader", p, r, nodestore, "", r.val, PyNone)

Length(p) ==
  LET r == len(node[p], nodestore)
  IN Done("reader", p, r, nodestore, "", r.val, PyNone)

Copy(p) ==
  LET r == copy(node[p], nodestore)
  IN Done("reader", p, r, nodestore, "", r.val, PyNone)

BindData(p) ==
  \E d \in Docs, ref \in {0} \cup Refs :
    LET r == bind_data(node[p], d, ref)
    IN Done("bind_data", p, NoCalls(r.exc, r.node), nodestore, "", 0, PyNone)

BindRef(p) ==
  \E instance \in Instances :
    LET r == bind_ref(node[p], nodestore, instance)
    IN Done("bind_ref", p, r, nodestore, "", 0, PyNone)

\* the attribute takes the NodeData to_python returns; it keeps the one it had
\* when to_python raises
ToPython(p) ==
  \E value \in PersistedValues :
    LET r == to_python(value)
    IN Done("to_python", p, NoCalls(r.exc, IF r.exc = "None" THEN r.node ELSE node[p]),
            nodestore, "", 0, value)

GetPrepValue(p) ==
  LET r == get_prep_value(node[p], nodestore)
  IN Done("get_prep_value", p, r, r.store, "", 0, r.ret)

OnDelete(p) ==
  LET r == on_delete(node[p], nodestore)
  IN Done("on_delete", p, [exc |-> "None", node |-> node[p], calls |-> r.calls, warns |-> 0],
          r.store,
          "", 0, PyNone)

Next ==
  \E p \in Proxies :
    \/ NodeDataInit(p)
    \/ GetItem(p)
    \/ SetItem(p)
    \/ DelItem(p)
    \/ Iter(p)
    \/ Length(p)
    \/ Copy(p)
    \/ BindData(p)
    \/ BindRef(p)
    \/ ToPython(p)
    \/ GetPrepValue(p)
    \/ OnDelete(p)

Spec == Init /\ [][Next]_vars

\* ------------------------------------------------------------------ helpers of the properties
Bound(n) == n.node_data # {}

\* the body an access sees without fetching: the held dict, or a fresh empty one
BodyOf(n) == IF Bound(n) THEN The(n.node_data) ELSE EmptyDict

Strip(d) == Without(Without(d, "_ref"), "_ref_version")

IsNull(value) == value.type = "NoneType"

AccessOps == {"__getitem__", "__setitem__", "__delitem__", "reader"}

ReadOps == {"__getitem__", "reader"}

Constructors == {"__init__", "to_python"}

\* ------------------------------------------------------------------ C1
\* The loader's explicit materialization: bind_data with the document the store
\* holds for the pointer and the reference expected for the owning record.
Materialized(n, st, instance, explicit) ==
  IF Bound(n) \/ n.id = 0 \/ ~explicit
  THEN LET r == data(n, st) IN [exc |-> r.exc, body |-> r.rv]
  ELSE LET got == nodestore_get(st, n.id)
           b == bind_data(n, IF got = {} THEN EmptyDict ELSE The(got), get_ref(instance))
       IN [exc |-> b.exc, body |-> BodyOf(b.node)]

\* bind D, prepare_for_persist, save, decode what was persisted, materialize
RoundTrip(n, st, D, ref, instance, explicit) ==
  LET b == bind_data(n, D, ref)
      r == bind_ref(b.node, st, instance)
      s == get_prep_value(r.node, st)
      t == to_python(s.ret)
      m == Materialized(t.node, s.store, instance, explicit)
  IN IF b.exc # "None" THEN [exc |-> b.exc, body |-> EmptyDict]
     ELSE IF r.exc # "None" THEN [exc |-> r.exc, body |-> EmptyDict]
     ELSE IF s.exc # "None" THEN [exc |-> s.exc, body |-> EmptyDict]
     ELSE IF t.exc # "None" THEN [exc |-> t.exc, body |-> EmptyDict]
     ELSE m

\* C1: for every body D without reserved keys, every proxy of a reachable state
\* and a fresh one, every expected reference and owning record: binding D, saving,
\* decoding the persisted value and materializing the decoded proxy (by the
\* explicit bind in either mode, by the lazy fetch in lenient mode) raises nothing
\* and yields a body equal to D.
C1_RoundTrip ==
  \A p \in Proxies, D \in UserDocs, ref \in {0} \cup Refs, instance \in Instances,
     explicit \in BOOLEAN :
    \A n \in {node[p], NodeData(0, {})} :
      (n.id # 0 \/ nodestore.next <= MaxId) /\ (explicit \/ ~DEBUG)
        => RoundTrip(n, nodestore, D, ref, instance, explicit) = [exc |-> "None", body |-> D]

\* a decoded proxy has fetched, on its first access, a body that a save had written
C1_Witness ==
  /\ last.op = "__getitem__"
  /\ last.exc = "None"
  /\ last.calls = << <<"get", node[last.p].id>> >>
  /\ last.val \in Vals
  /\ nodestore.docs[node[last.p].id] # {}

\* ------------------------------------------------------------------ C2
\* C2: in lenient mode an access of a proxy with a pointer and no body calls the
\* store's get exactly once and binds the body; an access of a bound proxy calls
\* nothing and a read returns what the held body says, whatever the store holds
\* now; and a bound proxy stays bound under every operation, so no later access
\* fetches again.
C2_LazyFetchOnce ==
  [][\A p \in Proxies :
       /\ (last'.p = p /\ last'.op \in AccessOps /\ ~DEBUG /\ node[p].id # 0 /\ ~Bound(node[p]))
            => /\ last'.calls = << <<"get", node[p].id>> >>
               /\ Bound(node'[p])
       /\ (last'.p = p /\ last'.op \in AccessOps /\ Bound(node[p]))
            => /\ last'.calls = <<>>
               /\ last'.op \in ReadOps => node'[p] = node[p]
               /\ last'.op = "reader" => last'.val = Cardinality(DOMAIN BodyOf(node[p]))
               /\ (last'.op = "__getitem__" /\ last'.exc = "None")
                    => /\ last'.key \in DOMAIN BodyOf(node[p])
                       /\ last'.val = BodyOf(node[p])[last'.key]
       /\ (Bound(node[p]) /\ ~(last'.p = p /\ last'.op \in Constructors))
            => Bound(node'[p])
       /\ (Bound(node[p]) /\ ~(last'.p = p))
            => node'[p] = node[p]
    ]_vars

\* a read answered from the held body, with no store call, while the store no
\* longer holds that body under the proxy's pointer
C2_Witness ==
  /\ ~DEBUG
  /\ last.op = "__getitem__"
  /\ last.exc = "None"
  /\ last.calls = <<>>
  /\ node[last.p].id # 0
  /\ \/ nodestore.docs[node[last.p].id] = {}
     \/ Strip(The(nodestore.docs[node[last.p].id])) # Strip(BodyOf(node[last.p]))

\* ------------------------------------------------------------------ C3
\* C3: a write is never lost: after a write(k, v) that did not raise, a read of k
\* on the same proxy returns v, and a save that then goes to the store writes a
\* body holding k -> v.
C3_WritesNeverLost ==
  \A p \in Proxies :
    (last.p = p /\ last.op = "__setitem__" /\ last.exc = "None")
      => /\ getitem(node[p], nodestore, last.key).exc = "None"
         /\ getitem(node[p], nodestore, last.key).val = last.val
         /\ (node[p].id # 0 \/ nodestore.next <= MaxId)
              => LET s == get_prep_value(node[p], nodestore)
                 IN /\ s.exc = "None"
                    /\ s.store.docs[s.node.id] # {}
                    /\ last.key \in DOMAIN The(s.store.docs[s.node.id])
                    /\ The(s.store.docs[s.node.id])[last.key] = last.val

\* ------------------------------------------------------------------ C4
\* bodies as bind_data may meet them: the model's documents, and those whose
\* _ref or _ref_version is stored as an explicit None
BindInputs ==
  Docs \cup {Put(d, "_ref_version", 0) : d \in Docs} \cup {Put(d, "_ref", 0) : d \in Docs}

StoredVersion(d) == IF "_ref_version" \in DOMAIN d THEN d["_ref_version"] ELSE 0

\* C4: bind_data(body, expected_ref) raises NodeIntegrityFailure exactly when the
\* body's stored _ref_version equals the field's ref_version, expected_ref is not
\* None and the body stores a _ref different from expected_ref; otherwise it
\* raises nothing and binds.
C4_IntegrityCheck ==
  \A p \in Proxies, d \in BindInputs, ref \in {0} \cup Refs :
    LET r == bind_data(node[p], d, ref)
        mismatch == /\ StoredVersion(d) = field.ref_version
                    /\ ref # 0
                    /\ "_ref" \in DOMAIN d
                    /\ d["_ref"] # ref
    IN /\ (r.exc = "NodeIntegrityFailure") <=> mismatch
       /\ ~mismatch => (r.exc = "None" /\ Bound(r.node))

\* a bind_data call has failed the integrity check
C4_Witness ==
  /\ last.op = "bind_data"
  /\ last.exc = "NodeIntegrityFailure"
  /\ node[last.p].ref_version = field.ref_version
  /\ node[last.p].ref # 0

\* ------------------------------------------------------------------ C5
\* C5: a bind_data call that fails with NodeIntegrityFailure leaves the proxy's
\* body slot, ref and ref_version as they were before the call.
C5_FailedBindLeavesProxy ==
  [][\A p \in Proxies :
       (last'.p = p /\ last'.op = "bind_data" /\ last'.exc = "NodeIntegrityFailure")
         => node'[p] = node[p]
    ]_vars

\* ------------------------------------------------------------------ C6
\* the pointer of the i-th store call of one kind, 0 when there is none
PointerOf(calls, name) ==
  IF Calls(calls, name) = 0 THEN 0
  ELSE calls[CHOOSE i \in 1..Len(calls) : calls[i][1] = name][2]

C8_NullOnlyWithoutPointer ==
  \A p \in Proxies :
    (last.p = p /\ last.op = "get_prep_value" /\ last.exc = "None" /\ IsNull(last.value))
      => /\ field.null
         /\ BodyOf(node[p]) = EmptyDict
         /\ node[p].id = 0

\* ------------------------------------------------------------------ C9
\* C9: the delete hook of a proxy with a pointer makes exactly one store call,
\* delete with that pointer, which removes that document and no other; the hook
\* of a proxy without pointer makes no store call and leaves the store as it is.
C9_DeletePropagation ==
  [][\A p \in Proxies :
       (last'.p = p /\ last'.op = "on_delete")
         => /\ last'.exc = "None"
            /\ IF node[p].id # 0
               THEN /\ last'.calls = << <<"delete", node[p].id>> >>
                    /\ nodestore' = [nodestore EXCEPT !.docs[node[p].id] = {}]
               ELSE /\ last'.calls = <<>>
                    /\ nodestore' = nodestore
    ]_vars

\* the delete hook has removed the document a proxy points to
C9_Witness ==
  /\ last.op = "on_delete"
  /\ node[last.p].id # 0
  /\ last.calls = << <<"delete", node[last.p].id>> >>
  /\ nodestore.docs[node[last.p].id] = {}
  /\ Bound(node[last.p])

\* ------------------------------------------------------------------ C10
\* a non-empty string that is no compressed encoding of a mapping
Corrupted(value) ==
  /\ value.type = "str"
  /\ value.s.fmt # "empty"
  /\ \/ decompress(value.s).exc # "None"
     \/ pickle_loads(decompress(value.s).raw).exc # "None"
     \/ pickle_loads(decompress(value.s).raw).obj.kind # "dict"

\* C10: to_python of a corrupted string raises nothing and returns a proxy with
\* no pointer whose materialized body is the empty document.
C10_CorruptedTolerated ==
  \A p \in Proxies :
    (last.p = p /\ last.op = "to_python" /\ Corrupted(last.value))
      => /\ last.exc = "None"
         /\ node[p].id = 0
         /\ data(node[p], nodestore).exc = "None"
         /\ data(node[p], nodestore).rv = EmptyDict

\* ------------------------------------------------------------------ C11
\* C11: in lenient mode the first access of a proxy that has a pointer and no body,
\* when the store's get reports the pointer absent, raises neither NodeUnpopulated
\* nor any error of the fetch: it behaves as the same access of the empty document
\* (a size of 0, KeyError for the read or the removal of a key, a write that
\* leaves the one key written); the proxy keeps its pointer and is then bound, so
\* that the next access calls the store no more.
C11_EmptyPointerYieldsEmpty ==
  [][\A p \in Proxies :
       (/\ last'.p = p
        /\ last'.op \in AccessOps
        /\ ~DEBUG
        /\ node[p].id # 0
        /\ ~Bound(node[p])
        /\ nodestore_get(nodestore, node[p].id) = {})
         => /\ last'.exc = (IF last'.op \in {"__getitem__", "__delitem__"} THEN "KeyError"
                            ELSE "None")
            /\ last'.calls = << <<"get", node[p].id>> >>
            /\ last'.op = "reader" => last'.val = 0
            /\ Bound(node'[p])
            /\ BodyOf(node'[p]) = (IF last'.op = "__setitem__"
                                   THEN Put(EmptyDict, last'.key, last'.val)
                                   ELSE EmptyDict)
            /\ node'[p].id = node[p].id
            /\ data(node'[p], nodestore').calls = <<>>
    ]_vars

\* a size was asked of a proxy whose pointer the store does not hold: the fetch
\* was made and the proxy is bound to the empty document
C11_Witness ==
  /\ ~DEBUG
  /\ last.op = "reader"
  /\ last.exc = "None"
  /\ last.val = 0
  /\ last.calls = << <<"get", node[last.p].id>> >>
  /\ nodestore.docs[node[last.p].id] = {}
  /\ node[last.p].node_data = {EmptyDict}

\* ------------------------------------------------------------------ C12
ReservedKeys == {"_ref", "_ref_version"}

\* C12: no caller writes a reserved key (the keys of every write, constructor body
\* and inline body are UserKeys), and in every reachable state the body a proxy
\* shows (its keys, size, reads and copy, all taken from the held dict) has
\* neither _ref nor _ref_version.
C12_ReservedKeysHidden ==
  \A p \in Proxies : DOMAIN BodyOf(node[p]) \cap ReservedKeys = {}

\* ------------------------------------------------------------------ C13
Outcome(op, key, r) ==
  [op |-> op, key |-> key, exc |-> r.exc, node |-> r.node, calls |-> r.calls, warns |-> r.warns]

\* every call that reads self.data first thing: the mapping methods, bind_ref with
\* a truthy ref, and get_prep_value (whose "not value" is __len__)
BodyAccesses(n, st) ==
  {Outcome("__getitem__", k, getitem(n, st, k)) : k \in UserKeys}
    \cup {Outcome("__setitem__", k, setitem(n, st, k, v)) : k \in UserKeys, v \in Vals}
    \cup {Outcome("__delitem__", k, delitem(n, st, k)) : k \in UserKeys}
    \cup {Outcome("__iter__", "", iter(n, st)), Outcome("__len__", "", len(n, st)),
          Outcome("copy", "", copy(n, st))}
    \cup {Outcome("bind_ref", "", bind_ref(n, st, i)) : i \in {j \in Instances : get_ref(j) # 0}}
    \cup {Outcome("get_prep_value", "", get_prep_value(n, st))}

\* the body the store holds for a pointer, as a fetch exposes it
Fetched(st, id) ==
  IF nodestore_get(st, id) = {} THEN EmptyDict ELSE Strip(The(nodestore_get(st, id)))

\* C13: for every proxy with a pointer and no body and every body access on it:
\* in strict mode the access raises NodeUnpopulated, makes no store call, issues
\* no warning and leaves the proxy as it was; in lenient mode it raises neither
\* NodeUnpopulated nor NodeIntegrityFailure (only the KeyError of reading or
\* removing a key the fetched body does not have), issues one warning, calls get
\* once, first, with the pointer, and leaves the proxy bound.
C13_StrictVersusLenient ==
  \A p \in Proxies :
    (node[p].id # 0 /\ ~Bound(node[p]))
      => \A x \in BodyAccesses(node[p], nodestore) :
           IF DEBUG
           THEN /\ x.exc = "NodeUnpopulated"
                /\ x.calls = <<>>
                /\ x.warns = 0
                /\ x.node = node[p]
           ELSE /\ x.exc = (IF /\ x.op \in {"__getitem__", "__delitem__"}
                               /\ x.key \notin DOMAIN Fetched(nodestore, node[p].id)
                            THEN "KeyError" ELSE "None")
                /\ x.warns = 1
                /\ Calls(x.calls, "get") = 1
                /\ x.calls[1] = <<"get", node[p].id>>
                /\ Bound(x.node)

\* strict mode has refused an access of a proxy with a pointer and no body
C13_Witness ==
  /\ DEBUG
  /\ last.op \in AccessOps
  /\ last.exc = "NodeUnpopulated"
  /\ last.calls = <<>>
  /\ node[last.p].id # 0
  /\ ~Bound(node[last.p])

\* lenient mode has warned, fetched and bound on such an access
C13_WitnessLenient ==
  /\ ~DEBUG
  /\ last.op \in AccessOps
  /\ last.exc = "None"
  /\ last.warns = 1
  /\ last.calls = << <<"get", node[last.p].id>> >>
  /\ Bound(node[last.p])

\* ------------------------------------------------------------------ C14
\* bind_ref(instance) and then the save
PreparedSave(n, st, instance) ==
  LET b == bind_ref(n, st, instance)
      s == get_prep_value(b.node, st)
  IN [bound |-> b, saved |-> s,
      written |-> IF s.node.id = 0 THEN {} ELSE nodestore_get(s.store, s.node.id)]

\* C14: with a reference function, for every proxy (one with a pointer and no body
\* only in lenient mode, where it can be accessed) and every owning record with a
\* reference: bind_ref and then the save raise nothing and the document the store
\* then holds under the proxy's pointer carries _ref = ref_func(instance) and
\* _ref_version = field.ref_version. Without a reference function bind_ref leaves
\* the proxy as it was and calls nothing.
C14_PrepareForPersist ==
  \A p \in Proxies, instance \in Instances :
    LET n == node[p]
        ps == PreparedSave(n, nodestore, instance)
    IN IF field.ref_func
       THEN (/\ ref_func(instance) # 0
             /\ n.id # 0 \/ nodestore.next <= MaxId
             /\ ~(DEBUG /\ n.id # 0 /\ ~Bound(n)))
              => /\ ps.bound.exc = "None"
                 /\ ps.saved.exc = "None"
                 /\ ps.written # {}
                 /\ "_ref" \in DOMAIN The(ps.written)
                 /\ The(ps.written)["_ref"] = ref_func(instance)
                 /\ "_ref_version" \in DOMAIN The(ps.written)
                 /\ The(ps.written)["_ref_version"] = field.ref_version
       ELSE /\ bind_ref(n, nodestore, instance).exc = "None"
            /\ bind_ref(n, nodestore, instance).node = n
            /\ bind_ref(n, nodestore, instance).calls = <<>>

\* ------------------------------------------------------------------ C15
\* the two shapes of a persisted pointer record: the stored string and the
\* decoded mapping
PointerRecords(id) ==
  {PyStr(compress(pickle_dumps(DictObj(PointerRecord(id))))), PyDict(PointerRecord(id))}

\* C15: to_python of a pointer record, stored string or decoded mapping, raises
\* nothing, makes no store call and leaves the store as it is; the proxy it
\* returns has the record's node_id for pointer, no ref, no ref_version and no
\* body; the store is read by the next body access (in lenient mode), with that
\* pointer.
C15_DecodeIsLazy ==
  [][\A p \in Proxies, id \in Ids :
       (last'.p = p /\ last'.op = "to_python" /\ last'.value \in PointerRecords(id))
         => /\ last'.exc = "None"
            /\ last'.calls = <<>>
            /\ nodestore' = nodestore
            /\ node'[p] = [id |-> id, ref |-> 0, ref_version |-> 0, node_data |-> {}]
            /\ ~DEBUG => data(node'[p], nodestore').calls = << <<"get", id>> >>
    ]_vars

\* a stored pointer record was decoded while the store holds a document under
\* its pointer: the proxy has the pointer and no body
C15_Witness ==
  /\ last.op = "to_python"
  /\ last.exc = "None"
  /\ node[last.p].id # 0
  /\ last.value = PyStr(compress(pickle_dumps(DictObj(PointerRecord(node[last.p].id)))))
  /\ ~Bound(node[last.p])
  /\ nodestore.docs[node[last.p].id] # {}
  /\ The(nodestore.docs[node[last.p].id]) # EmptyDict

\* ------------------------------------------------------------------ C16
\* C16: whenever a save returns a value that is not null, the value is a string
\* that decompresses and unpickles to a mapping whose only key is node_id, whose
\* value is the pointer the proxy has after the save, and to_python of the value
\* yields a proxy with that pointer and no body.
C16_PurePointerRecord ==
  \A p \in Proxies :
    (last.p = p /\ last.op = "get_prep_value" /\ last.exc = "None" /\ ~IsNull(last.value))
      => /\ last.value.type = "str"
         /\ decompress(last.value.s).exc = "None"
         /\ pickle_loads(decompress(last.value.s).raw).exc = "None"
         /\ LET o == pickle_loads(decompress(last.value.s).raw).obj
            IN /\ o.kind = "dict"
               /\ DOMAIN o.d = {"node_id"}
               /\ o.d["node_id"] = node[p].id
         /\ node[p].id # 0
         /\ to_python(last.value).exc = "None"
         /\ to_python(last.value).node.id = node[p].id
         /\ ~Bound(to_python(last.value).node)

\* a first save of a proxy with a non-empty body has returned its record
C16_Witness ==
  /\ last.op = "get_prep_value"
  /\ last.exc = "None"
  /\ ~IsNull(last.value)
  /\ Calls(last.calls, "create") = 1
  /\ DOMAIN BodyOf(node[last.p]) \cap UserKeys # {}

\* ------------------------------------------------------------------ C17
\* two record attributes, each holding its own proxy
Proxies2 == {"p1", "p2"}

\* either mode, every field configuration, two fresh proxies, an empty store
Init17 ==
  /\ DEBUG \in BOOLEAN
  /\ field \in [null : BOOLEAN, ref_func : BOOLEAN, ref_version : {0} \cup Versions]
  /\ nodestore = [docs |-> [i \in Ids |-> {}], next |-> 1]
  /\ node = [p \in Proxies2 |-> NodeData(0, {})]
  /\ last = [op |-> "__init__", p |-> CHOOSE p \in Proxies2 : TRUE, exc |-> "None",
             key |-> "", val |-> 0, value |-> PyNone, calls |-> <<>>, warns |-> 0]

\* the store hands out one pointer in this specification
MaxId17 == 1

\* NodeData(field, None, body): a new proxy around a caller's body
Construct17(p) ==
  \E u \in UserDocs :
    Done("__init__", p, NoCalls("None", NodeData(0, {u})), nodestore, "", 0, PyNone)

\* to_python of the stored pointer record of a document the store has handed out
Decode17(p) ==
  \E id \in Allocated :
    LET value == PyStr(compress(pickle_dumps(DictObj(PointerRecord(id)))))
        r == to_python(value)
    IN Done("to_python", p, NoCalls(r.exc, IF r.exc = "None" THEN r.node ELSE node[p]),
            nodestore, "", 0, value)

\* the loader's bind: bind_data with the document the store holds under the
\* proxy's pointer and the reference of the owning record
Load17(p) ==
  \E instance \in Instances :
    /\ node[p].id # 0
    /\ LET got == nodestore_get(nodestore, node[p].id)
           r == bind_data(node[p], IF got = {} THEN EmptyDict ELSE The(got), get_ref(instance))
       IN Done("bind_data", p, NoCalls(r.exc, r.node), nodestore, "", 0, PyNone)

GetPrepValue17(p) ==
  LET r == get_prep_value(node[p], nodestore)
  IN /\ r.store.next <= MaxId17 + 1
     /\ Done("get_prep_value", p, r, r.store, "", 0, r.ret)

\* the calls of two callers, one per proxy, in any order; each call is one step
Next17 ==
  \E p \in Proxies2 :
    \/ Construct17(p)
    \/ Decode17(p)
    \/ Load17(p)
    \/ GetItem(p)
    \/ SetItem(p)
    \/ DelItem(p)
    \/ BindRef(p)
    \/ GetPrepValue17(p)

Spec17 == Init17 /\ [][Next17]_vars

\* both proxies are bound and hold the same pointer
SharedAndBound(p, q) ==
  /\ p # q
  /\ node[p].id # 0
  /\ node[q].id = node[p].id
  /\ Bound(node[p])
  /\ Bound(node[q])

\* C17: a call on one proxy never changes the other proxy; no save raises
\* NodeIntegrityFailure; and a save of one of two bound proxies that hold the same
\* pointer returns and leaves the store's document at that pointer equal to the
\* saving proxy's body, whatever the other proxy wrote there before.
C17_LastWriteWins ==
  [][\A p \in Proxies2, q \in Proxies2 :
       /\ (last'.p = p /\ q # p) => node'[q] = node[q]
       /\ (last'.p = p /\ last'.op = "get_prep_value")
            => last'.exc # "NodeIntegrityFailure"
       /\ (last'.p = p /\ last'.op = "get_prep_value" /\ SharedAndBound(p, q))
            => /\ last'.exc = "None"
               /\ node'[p].id = node[p].id
               /\ nodestore'.docs[node[p].id] = {BodyOf(node'[p])}
    ]_vars

\* ------------------------------------------------------------------ C18
\* C18: while the attribute keeps its proxy (no constructor, no to_python puts a
\* new one there), the proxy's pointer changes in one step only: a save of this
\* proxy, whose pointer was None, that calls create once and takes the pointer
\* create returned. Every other step, of any operation, leaves the pointer as it
\* was; so a pointer that is not None never changes.
C18_PointerStability ==
  [][\A p \in Proxies :
       (node'[p].id # node[p].id /\ ~(last'.p = p /\ last'.op \in Constructors))
         => /\ last'.p = p
            /\ last'.op = "get_prep_value"
            /\ last'.exc = "None"
            /\ node[p].id = 0
            /\ Calls(last'.calls, "create") = 1
            /\ Calls(last'.calls, "set") = 0
            /\ node'[p].id = PointerOf(last'.calls, "create")
            /\ node'[p].id # 0
    ]_vars

\* a proxy was saved again, under the first pointer, after the store had handed
\* out a second one
C18_Witness ==
  /\ last.op = "get_prep_value"
  /\ last.exc = "None"
  /\ last.calls = << <<"set", node[last.p].id>> >>
  /\ node[last.p].id # 0
  /\ node[last.p].id < nodestore.next - 1

\* ------------------------------------------------------------------ C19
\* C19: in lenient mode, for every pointer, for the proxy of every reachable state
\* (a freshly decoded one among them) given that pointer and no body, and for
\* every document the store may hold there (any _ref and _ref_version, present,
\* absent or None): the body access raises nothing, in particular no
\* NodeIntegrityFailure; the proxy's ref and ref_version become the stored _ref
\* and _ref_version (None when absent) and its body the rest of the document.
C19_LazyFetchNeverFailsIntegrity ==
  \A p \in Proxies, id \in Ids, d \in BindInputs :
    ~DEBUG
      => LET n == [node[p] EXCEPT !.id = id, !.node_data = {}]
             r == data(n, nodestore_set(nodestore, id, d))
         IN /\ r.exc = "None"
            /\ r.calls = << <<"get", id>> >>
            /\ r.node.id = id
            /\ r.node.ref = Pop(d, "_ref", 0)
            /\ r.node.ref_version = Pop(d, "_ref_version", 0)
            /\ r.node.node_data = {Strip(d)}
            /\ r.rv = Strip(d)

\* a lazy fetch has bound a document whose _ref_version is the field's and whose
\* _ref is set: a bind with an expected reference could have failed on it
C19_Witness ==
  /\ ~DEBUG
  /\ last.op \in AccessOps
  /\ last.exc = "None"
  /\ last.calls = << <<"get", node[last.p].id>> >>
  /\ node[last.p].ref # 0
  /\ node[last.p].ref_version = field.ref_version
  /\ Bound(node[last.p])
  /\ DOMAIN BodyOf(node[last.p]) \cap ReservedKeys = {}

\* ------------------------------------------------------------------ C20
\* C20: the delete hook leaves the proxy as it was (pointer, body, ref,
\* ref_version) and fetches nothing; and a save of that proxy right after the
\* hook of a proxy with a pointer (in strict mode: of a bound one, which a save
\* can read) returns, calls set once with the deleted pointer and never create.
C20_DeleteLeavesProxy ==
  [][\A p \in Proxies :
       (last'.p = p /\ last'.op = "on_delete")
         => /\ node'[p] = node[p]
            /\ Calls(last'.calls, "get") = 0
            /\ last'.warns = 0
            /\ (node[p].id # 0 /\ ~(DEBUG /\ ~Bound(node[p])))
                 => LET s == get_prep_value(node'[p], nodestore')
                    IN /\ s.exc = "None"
                       /\ Calls(s.calls, "create") = 0
                       /\ Calls(s.calls, "set") = 1
                       /\ PointerOf(s.calls, "set") = node[p].id
                       /\ s.node.id = node[p].id
    ]_vars

====
